---------------------------- MODULE Spec2Model ----------------------------
(***************************************************************************)
(* vivad: the ViVa weather-station daemon (vivad.py) and its SOAP client   *)
(* (viva.py).  The module models the main program of vivad.py in its two   *)
(* run modes (history sync, poll loop), the SQLite store it writes to, and *)
(* the sample construction of viva.py.                                     *)
(*                                                                         *)
(* Time is counted in whole hours.  A raw ViVa timestamp is the number of   *)
(* hours that the wall clock of its zone shows since 2014-01-01T00:00, a    *)
(* stored timestamp the number of hours since 2014-01-01T00:00 UTC.         *)
(***************************************************************************)
EXTENDS Integers, Sequences, FiniteSets

(***************************************************************************)
(* Bounds of the model.                                                    *)
(***************************************************************************)
MaxClock == 4        \* the wall clock is followed up to this instant
MaxFetchTime == 2    \* a fetch blocks for 1..MaxFetchTime units
MaxPollRate == 4     \* -p <rate> is drawn from 1..MaxPollRate
MaxElements == 2     \* a response that is ingested on its own has 0..MaxElements elements

(***************************************************************************)
(* Program constants.                                                      *)
(***************************************************************************)
CET_UTCOFFSET == 1   \* utcoffset of the tzinfo that replace(tzinfo=TZ_CET) attaches

\* the station ids given on the command line: stations A, B, C
Stations == <<33, 34, 35>>

\* the name the service reports for a station (PlatsNamn / Namn)
StationName(sid) == CASE sid = 33 -> "A" [] sid = 34 -> "B" [] OTHER -> "C"

(***************************************************************************)
(* Strings that are transformed character by character are sequences of    *)
(* one-character strings.                                                  *)
(***************************************************************************)
LowerChars == <<"a","b","c","d","e","f","g","h","i","j","k","l","m","n","o",
                "p","q","r","s","t","u","v","w","x","y","z","å","ä","ö">>
UpperChars == <<"A","B","C","D","E","F","G","H","I","J","K","L","M","N","O",
                "P","Q","R","S","T","U","V","W","X","Y","Z","Å","Ä","Ö">>

UpperChar(c) ==
    IF \E i \in DOMAIN LowerChars : LowerChars[i] = c
    THEN UpperChars[CHOOSE i \in DOMAIN LowerChars : LowerChars[i] = c]
    ELSE c

\* a caller that passed the type name on as it came
Upper_Identity(s) == s

\* unicode.upper()
Upper(s) == [i \in DOMAIN s |-> UpperChar(s[i])]

MEDELVIND == <<"M","E","D","E","L","V","I","N","D">>
BYVIND == <<"B","Y","V","I","N","D">>
RIKTNING == <<"R","I","K","T","N","I","N","G">>
VATTENTEMPERATUR == <<"V","A","T","T","E","N","T","E","M","P","E","R","A","T","U","R">>
SIKT == <<"S","I","K","T">>
LUFTTEMPERATUR == <<"L","U","F","T","T","E","M","P","E","R","A","T","U","R">>
LUFTFUKTIGHET == <<"L","U","F","T","F","U","K","T","I","G","H","E","T">>
LUFTTRYCK == <<"L","U","F","T","T","R","Y","C","K">>
VATTENSTAND == <<"V","A","T","T","E","N","S","T","Å","N","D">>
STROM_2M == <<"S","T","R","Ö","M"," ","2","M">>
STROM_4M == <<"S","T","R","Ö","M"," ","4","M">>
STROM_6M == <<"S","T","R","Ö","M"," ","6","M">>
STROM_YTA == <<"S","T","R","Ö","M"," ","Y","T","A">>

\* SAMPLE_LUT as the set of its (key, value) entries; a key is <<name, unit>>
SAMPLE_LUT ==
    { <<<<MEDELVIND, "m/s">>, "AVG_WIND">>,
      <<<<BYVIND, "m/s">>, "GUST_WIND">>,
      <<<<RIKTNING, "°">>, "WIND_DIRECTION">>,
      <<<<VATTENTEMPERATUR, "°">>, "WATER_TEMP">>,
      <<<<SIKT, "m">>, "VISIBILITY">>,
      <<<<LUFTTEMPERATUR, "°">>, "AIR_TEMP">>,
      <<<<LUFTFUKTIGHET, "%">>, "AIR_HUMIDITY">>,
      <<<<LUFTTRYCK, "mbar">>, "AIR_PRESSURE">>,
      <<<<VATTENSTAND, "cm">>, "WATER_LEVEL">>,
      <<<<STROM_2M, "°">>, "WATER_CURRENT_2M_DIR">>,
      <<<<STROM_2M, "knop">>, "WATER_CURRENT_2M_SPEED">>,
      <<<<STROM_4M, "°">>, "WATER_CURRENT_4M_DIR">>,
      <<<<STROM_4M, "knop">>, "WATER_CURRENT_4M_SPEED">>,
      <<<<STROM_6M, "°">>, "WATER_CURRENT_6M_DIR">>,
      <<<<STROM_6M, "knop">>, "WATER_CURRENT_6M_SPEED">>,
      <<<<STROM_YTA, "°">>, "WATER_CURRENT_SURFACE_DIR">>,
      <<<<STROM_YTA, "knop">>, "WATER_CURRENT_SURFACE_SPEED">> }

\* (stype, sunit) in SAMPLE_LUT
InLut(stype, sunit) == \E e \in SAMPLE_LUT : e[1] = <<stype, sunit>>

\* a lookup by the type name alone
LutGet_ByName(stype, sunit) == (CHOOSE e \in SAMPLE_LUT : e[1][1] = stype)[2]

\* SAMPLE_LUT[(stype, sunit)]
LutGet(stype, sunit) == (CHOOSE e \in SAMPLE_LUT : e[1] = <<stype, sunit>>)[2]

\* datetime.strptime(Tid, VIVA_DATEFORMAT).replace(tzinfo=TZ_CET): the wall
\* clock reading is kept and the zone's fixed offset is attached
ParseTstamp(tid) == [wall |-> tid, utcoffset |-> CET_UTCOFFSET]

\* timegm(ststamp.utctimetuple())
UtcSeconds(ststamp) == ststamp.wall - ststamp.utcoffset

\* class Sample
Sample(station_id, station_name, stype, svalue, ststamp) ==
    [station_id |-> station_id, station_name |-> station_name,
     stype |-> stype, svalue |-> svalue, ststamp |-> ststamp]

\* create_sample: a one-element list holding the Sample, or the empty list
\* where the code returns False (the callers append only a true result)
create_sample(station_id, station_name, sunit, stype, svalue, ststamp) ==
    IF InLut(stype, sunit)
    THEN <<Sample(station_id, station_name, LutGet(stype, sunit), svalue, ststamp)>>
    ELSE <<>>

\* a loop that returned at the end of its first iteration
CollectSamples_FirstOnly(station_id, station_name, elements) ==
    IF elements = <<>> THEN <<>>
    ELSE LET element == Head(elements)
         IN  create_sample(station_id, station_name, element.unit,
                           Upper(element.typ), element.value,
                           ParseTstamp(element.tid))

\* the loop over the elements of a response: upper-case the type, parse the
\* timestamp, create the sample, append it if it is one
RECURSIVE CollectSamples(_, _, _)
CollectSamples(station_id, station_name, elements) ==
    IF elements = <<>> THEN <<>>
    ELSE LET element == Head(elements)
         IN  create_sample(station_id, station_name, element.unit,
                           Upper(element.typ), element.value,
                           ParseTstamp(element.tid))
             \o CollectSamples(station_id, station_name, Tail(elements))

(***************************************************************************)
(* What the service can answer.  The elements of a response are taken from *)
(* a small set: a listed type in lower case, the same type at the same     *)
(* instant spelled in upper case with another value, a second listed type, *)
(* and a listed name with another name's unit.                             *)
(***************************************************************************)
ElemA == [typ |-> <<"m","e","d","e","l","v","i","n","d">>, unit |-> "m/s",
          value |-> "5.2", tid |-> 10]
ElemA2 == [typ |-> MEDELVIND, unit |-> "m/s", value |-> "6.0", tid |-> 10]
ElemB == [typ |-> BYVIND, unit |-> "m/s", value |-> "7.1", tid |-> 10]
ElemX == [typ |-> MEDELVIND, unit |-> "knop", value |-> "9", tid |-> 10]

ElementLists ==
    { <<>>, <<ElemX>>, <<ElemA, ElemA2>>, <<ElemA, ElemX, ElemB>> }

\* a value of the program variable `samples': Python False, or a list
PyFalse == [isFalse |-> TRUE, list |-> <<>>]
PyList(l) == [isFalse |-> FALSE, list |-> l]

\* `if samples:'
Truthy(s) == ~s.isFalse /\ Len(s.list) > 0

\* The kinds of response to GetViVaDataT (latest).  "transport": urlopen or
\* etree.parse raises.  "err": a Felmeddelande element.  "noname": no
\* PlatsNamn element.  "ok": a name and a list of ViVaDataT elements.
LatestResponses ==
    { [kind |-> k, elements |-> <<>>] : k \in {"transport", "err", "noname"} }
    \cup { [kind |-> "ok", elements |-> e] : e \in ElementLists }

\* The kinds of response to GetViVaDataTH (history).
HistoryResponses ==
    { [kind |-> "transport", elements |-> <<>>] }
    \cup { [kind |-> "ok", elements |-> e] : e \in ElementLists }

\* a client that raised on the service's error indicator
Raises_OnErrorIndicator(resp) == resp.kind \in {"transport", "err"}

\* urlopen(request) or etree.parse(stream) raises
Raises(resp) == resp.kind = "transport"

\* a client that returned an empty list where the service reports an error
fetch_station_latest_EmptyOnError(station_id, resp) ==
    IF resp.kind \in {"err", "noname"} THEN PyList(<<>>)
    ELSE IF resp.elements = <<>> THEN PyFalse
    ELSE PyList(CollectSamples(station_id, StationName(station_id), resp.elements))

\* fetch_station_latest, after the response was received and parsed
fetch_station_latest(station_id, resp) ==
    IF resp.kind = "err" THEN PyFalse
    ELSE IF resp.kind = "noname" THEN PyFalse
    ELSE IF resp.elements = <<>> THEN PyFalse
    ELSE PyList(CollectSamples(station_id, StationName(station_id), resp.elements))

\* fetch_station_history, after the response was received and parsed
fetch_station_history(station_id, resp) ==
    PyList(CollectSamples(station_id, StationName(station_id), resp.elements))

(***************************************************************************)
(* The store: table vivad_samples.                                         *)
(***************************************************************************)
\* a UNIQUE constraint that took in the store_tstamp column
UniqueKey_WithStoreTstamp(row) ==
    <<row.station_id, row.sample_tstamp, row.sample_type, row.store_tstamp>>

\* the columns of the UNIQUE constraint
UniqueKey(row) == <<row.station_id, row.sample_tstamp, row.sample_type>>

\* the parameters of the INSERT in store_single_sample
RowOf(sample, utcnow) ==
    [station_id |-> sample.station_id,
     station_name |-> sample.station_name,
     store_tstamp |-> utcnow,
     sample_tstamp |-> UtcSeconds(sample.ststamp),
     sample_type |-> sample.stype,
     sample_value |-> sample.svalue]

\* a table without the UNIQUE ... ON CONFLICT IGNORE clause
InsertRow_NoConflictClause(rows, row) == {row}

\* INSERT under UNIQUE (...) ON CONFLICT IGNORE: `rows' is what the
\* connection sees, committed and uncommitted
InsertRow(rows, row) ==
    IF \E r \in rows : UniqueKey(r) = UniqueKey(row) THEN {} ELSE {row}

(***************************************************************************)
(* The state.                                                              *)
(***************************************************************************)
VARIABLES
    mode,         \* "sync" (-s) or "poll"
    pollrate,     \* -p
    pc,           \* where the main program is
    now,          \* the wall clock
    db,           \* the committed rows of vivad_samples
    pending,      \* the rows inserted in the open transaction
    dbopen,       \* the connection is open
    pidfile,      \* the PID file exists
    idx,          \* the position in `stations' of the for loop
    samples,      \* the program variable `samples'
    k,            \* the position in `samples' of store_samples' loop
    t0,           \* the program variable t0
    time_elapsed, \* the program variable time_elapsed, -1 before it is set
    slept,        \* the argument of this round's time.sleep, -1 if there is none
    warned,       \* the too-slow warning was printed at the end of the last round
    interrupted,  \* a KeyboardInterrupt was raised
    lastKind,     \* the kind of the last response of the service
    log,          \* this pass' stations: what was fetched and how it was stored
    lastBatch,    \* the samples of the last committed store_samples call
    rewrote,      \* the committed call wrote the batch the one before it wrote
    elements,     \* the sample elements of the last response of the service
    pc2           \* where a second vivad process on the same PID file is

vars == <<mode, pollrate, pc, now, db, pending, dbopen, pidfile, idx, samples,
          k, t0, time_elapsed, slept, warned, interrupted, log,
          lastBatch, rewrote, lastKind, elements, pc2>>


\* What `log' holds for one station of the pass: what the fetch gave
\* ("raised", "false", "empty", "samples"), how store_samples ended ("no": not
\* called or not finished, "committed", "raised"), and the number of
\* run_callback calls, with the `instance' argument of the last one.
LogEntry(sid, got) ==
    [sid |-> sid, got |-> got, stored |-> "no", notified |-> 0,
     instance |-> "none"]

GotOf(s) == IF s.isFalse THEN "false" ELSE IF s.list = <<>> THEN "empty" ELSE "samples"

Init ==
    /\ mode \in {"sync", "poll"}
    /\ pollrate \in 1..MaxPollRate
    /\ pc = "connect"
    /\ now = 0
    /\ db = {}
    /\ pending = {}
    /\ dbopen = TRUE
    /\ pidfile \in BOOLEAN
    /\ idx = 1
    /\ samples = PyList(<<>>)
    /\ k = 1
    /\ t0 = 0
    /\ time_elapsed = -1
    /\ slept = -1
    /\ warned = FALSE
    /\ interrupted = FALSE
    /\ lastKind = "none"
    /\ log = <<>>
    /\ lastBatch = <<>>
    /\ rewrote = FALSE
    /\ elements = <<>>
    /\ pc2 = "absent"

\* a for loop that left out the last station
Advance_SkipLast ==
    IF idx < Len(Stations) - 1
    THEN /\ idx' = idx + 1
         /\ pc' = "fetch"
    ELSE /\ idx' = idx
         /\ pc' = IF mode = "poll" THEN "elapsed" ELSE "close"

\* the end of one iteration of `for station_id in stations': the next
\* station, or the statement after the loop
Advance ==
    IF idx < Len(Stations)
    THEN /\ idx' = idx + 1
         /\ pc' = "fetch"
    ELSE /\ idx' = idx
         /\ pc' = IF mode = "poll" THEN "elapsed" ELSE "close"

\* a schema step that created the table anew on every start
CreateTables_Recreate ==
    /\ pc = "connect"
    /\ db' = {}
    /\ pc' = "start"
    /\ UNCHANGED <<mode, pollrate, now, pending, dbopen, pidfile, idx, samples,
                   k, t0, time_elapsed, slept, warned, interrupted, log,
                   lastBatch, rewrote, lastKind, elements, pc2>>

\* `db = sqlite3.connect(dbfile); create_database_tables(db)': CREATE TABLE
\* IF NOT EXISTS and a commit; a table that is there is left as it is
CreateTables ==
    /\ pc = "connect"
    /\ db' = db
    /\ pc' = "start"
    /\ UNCHANGED <<mode, pollrate, now, pending, dbopen, pidfile, idx, samples,
                   k, t0, time_elapsed, slept, warned, interrupted, log,
                   lastBatch, rewrote, lastKind, elements, pc2>>

\* `if do_sync:' t_until, t_from, and the first iteration of the for loop
SyncStart ==
    /\ pc = "start"
    /\ mode = "sync"
    /\ pc' = "fetch"
    /\ idx' = 1
    /\ UNCHANGED <<mode, pollrate, now, db, pending, dbopen, pidfile, samples, k,
                   t0, time_elapsed, slept, warned, interrupted, log, lastBatch,
                   rewrote,
                   lastKind, elements, pc2>>

\* `if os.path.isfile(pidfile): usage(...)': usage() ends in sys.exit(1)
PidCheck ==
    /\ pc = "start"
    /\ mode = "poll"
    /\ pc' = IF pidfile THEN "usage" ELSE "pidwrite"
    /\ UNCHANGED <<mode, pollrate, now, db, pending, dbopen, pidfile, idx,
                   samples, k, t0, time_elapsed, slept, warned, interrupted, log,
                   lastBatch, rewrote,
                   lastKind, elements, pc2>>

\* file(pidfile, 'w').write(pid)
PidWrite ==
    /\ pc = "pidwrite"
    /\ pidfile' = TRUE
    /\ pc' = "round"
    /\ UNCHANGED <<mode, pollrate, now, db, pending, dbopen, idx, samples, k, t0,
                   time_elapsed, slept, warned, interrupted, log, lastBatch,
                   rewrote,
                   lastKind, elements, pc2>>

\* `while True: t0 = time.time()' and the first iteration of the for loop
RoundStart ==
    /\ pc = "round"
    /\ t0' = now
    /\ idx' = 1
    /\ log' = <<>>
    /\ slept' = -1
    /\ warned' = FALSE
    /\ pc' = "fetch"
    /\ UNCHANGED <<mode, pollrate, now, db, pending, dbopen, pidfile, samples, k,
                   time_elapsed, interrupted, lastBatch, rewrote,
                   lastKind, elements, pc2>>

\* `samples = viva.fetch_station_latest(station_id)' and `if samples:'.  An
\* exception of urlopen or etree.parse is caught nowhere: the process ends
\* with a traceback.
FetchLatest ==
    /\ pc = "fetch"
    /\ mode = "poll"
    /\ \E d \in 1..MaxFetchTime, resp \in LatestResponses :
        /\ now + d <= MaxClock
        /\ now' = now + d
        /\ lastKind' = resp.kind
        /\ elements' = resp.elements
        /\ IF Raises(resp)
           THEN /\ pc' = "crashed"
                /\ log' = Append(log, LogEntry(Stations[idx], "raised"))
                /\ UNCHANGED <<samples, idx, k>>
           ELSE LET s == fetch_station_latest(Stations[idx], resp)
                IN  /\ samples' = s
                    /\ log' = Append(log, LogEntry(Stations[idx], GotOf(s)))
                    /\ IF Truthy(s)
                       THEN /\ pc' = "insert"
                            /\ k' = 1
                            /\ idx' = idx
                       ELSE /\ Advance
                            /\ k' = k
    /\ rewrote' = FALSE
    /\ UNCHANGED <<mode, pollrate, db, pending, dbopen, pidfile, t0, time_elapsed,
                   slept, warned, interrupted, lastBatch, pc2>>

\* `samples = viva.fetch_station_history(station_id, t_from, t_until)' and
\* `if samples:'
FetchHistory ==
    /\ pc = "fetch"
    /\ mode = "sync"
    /\ \E d \in 1..MaxFetchTime, resp \in HistoryResponses :
        /\ now + d <= MaxClock
        /\ now' = now + d
        /\ lastKind' = resp.kind
        /\ elements' = resp.elements
        /\ IF Raises(resp)
           THEN /\ pc' = "crashed"
                /\ log' = Append(log, LogEntry(Stations[idx], "raised"))
                /\ UNCHANGED <<samples, idx, k>>
           ELSE LET s == fetch_station_history(Stations[idx], resp)
                IN  /\ samples' = s
                    /\ log' = Append(log, LogEntry(Stations[idx], GotOf(s)))
                    /\ IF Truthy(s)
                       THEN /\ pc' = "insert"
                            /\ k' = 1
                            /\ idx' = idx
                       ELSE /\ Advance
                            /\ k' = k
    /\ rewrote' = FALSE
    /\ UNCHANGED <<mode, pollrate, db, pending, dbopen, pidfile, t0, time_elapsed,
                   slept, warned, interrupted, lastBatch, pc2>>

\* store_single_sample(db, samples[k]) where cursor.execute succeeds: it
\* returns the cursor, which is true, so store_samples goes on
InsertOk ==
    /\ pc = "insert"
    /\ pending' = pending \cup InsertRow(db \cup pending, RowOf(samples.list[k], now))
    /\ k' = k + 1
    /\ pc' = IF k = Len(samples.list) THEN "commit" ELSE "insert"
    /\ UNCHANGED <<mode, pollrate, now, db, dbopen, pidfile, idx, samples, t0,
                   time_elapsed, slept, warned, interrupted, log, lastBatch,
                   rewrote,
                   lastKind, elements, pc2>>

\* store_single_sample(db, samples[k]) where cursor.execute fails: it raises
\* sqlite3.Error, which neither store_samples nor the main program catches.
\* The process ends and the open transaction is never committed.
InsertRaise ==
    /\ pc = "insert"
    /\ pc' = "crashed"
    /\ pending' = {}
    /\ log' = [log EXCEPT ![Len(log)].stored = "raised"]
    /\ UNCHANGED <<mode, pollrate, now, db, dbopen, pidfile, idx, samples, k, t0,
                   time_elapsed, slept, warned, interrupted, lastBatch, rewrote,
                   lastKind, elements, pc2>>

\* a main program that went on to the next station after the commit
Commit_NoCallback ==
    /\ pc = "commit"
    /\ db' = db \cup pending
    /\ pending' = {}
    /\ log' = [log EXCEPT ![Len(log)].stored = "committed"]
    /\ rewrote' = (samples.list = lastBatch)
    /\ lastBatch' = samples.list
    /\ Advance
    /\ UNCHANGED <<mode, pollrate, now, dbopen, pidfile, samples, k, t0,
                   time_elapsed, slept, warned, interrupted,
                   lastKind, elements, pc2>>

\* `db.commit(); return True' at the end of store_samples
Commit ==
    /\ pc = "commit"
    /\ db' = db \cup pending
    /\ pending' = {}
    /\ log' = [log EXCEPT ![Len(log)].stored = "committed"]
    /\ rewrote' = (samples.list = lastBatch)
    /\ lastBatch' = samples.list
    /\ pc' = "callback"
    /\ UNCHANGED <<mode, pollrate, now, dbopen, pidfile, idx, samples, k, t0,
                   time_elapsed, slept, warned, interrupted,
                   lastKind, elements, pc2>>

\* run_callback(callback, samples[0].station_name): whatever the callback
\* does (none configured, exit status, exception) is printed and dropped
RunCallback ==
    /\ pc = "callback"
    /\ log' = [log EXCEPT ![Len(log)].notified = @ + 1,
                         ![Len(log)].instance = samples.list[1].station_name]
    /\ Advance
    /\ UNCHANGED <<mode, pollrate, now, db, pending, dbopen, pidfile, samples, k,
                   t0, time_elapsed, slept, warned, interrupted, lastBatch,
                   rewrote,
                   lastKind, elements, pc2>>

\* a test that took in the poll rate itself
TooSlow_Inclusive(elapsed, rate) == elapsed >= rate

\* `if time_elapsed > pollrate'
TooSlow(elapsed, rate) == elapsed > rate

\* a sleep of the whole poll rate after each round
SleepTime_FixedRate(elapsed, rate) == rate

\* the argument of time.sleep
SleepTime(elapsed, rate) == rate - elapsed

\* `t1 = time.time(); time_elapsed = t1 - t0', the test of time_elapsed, and
\* either the warning or the evaluation of the argument of time.sleep
RoundEnd ==
    /\ pc = "elapsed"
    /\ time_elapsed' = now - t0
    /\ IF TooSlow(now - t0, pollrate)
       THEN /\ warned' = TRUE
            /\ slept' = slept
            /\ pc' = "round"
       ELSE /\ warned' = FALSE
            /\ slept' = SleepTime(now - t0, pollrate)
            /\ pc' = "sleep"
    /\ UNCHANGED <<mode, pollrate, now, db, pending, dbopen, pidfile, idx,
                   samples, k, t0, interrupted, log, lastBatch, rewrote,
                   lastKind, elements, pc2>>

\* time.sleep(pollrate - time_elapsed) returns
Sleep ==
    /\ pc = "sleep"
    /\ now + slept <= MaxClock
    /\ now' = now + slept
    /\ pc' = "round"
    /\ UNCHANGED <<mode, pollrate, db, pending, dbopen, pidfile, idx, samples, k,
                   t0, time_elapsed, slept, warned, interrupted, log, lastBatch,
                   rewrote, lastKind, elements, pc2>>

\* the places of the poll loop inside `try:'
LoopPcs == {"round", "fetch", "insert", "commit", "callback", "elapsed", "sleep"}

\* SIGINT while the poll loop runs: KeyboardInterrupt is raised in the main
\* thread and leaves the try block
Interrupt ==
    /\ mode = "poll"
    /\ pc \in LoopPcs
    /\ interrupted' = TRUE
    /\ pc' = "except"
    /\ UNCHANGED <<mode, pollrate, now, db, pending, dbopen, pidfile, idx,
                   samples, k, t0, time_elapsed, slept, warned, log, lastBatch,
                   rewrote,
                   lastKind, elements, pc2>>

\* a handler that left the PID file in place
ExceptKeyboardInterrupt_NoUnlink ==
    /\ pc = "except"
    /\ dbopen' = FALSE
    /\ pending' = {}
    /\ pc' = "terminated"
    /\ UNCHANGED <<mode, pollrate, now, db, pidfile, idx, samples, k, t0,
                   time_elapsed, slept, warned, interrupted, log, lastBatch,
                   rewrote, lastKind, elements, pc2>>

\* `except KeyboardInterrupt: os.unlink(pidfile)', and then the last
\* statement of the program, db.close(), which rolls back an open
\* transaction.  os.unlink raises OSError where another process has removed
\* the file: the process ends there, and its connection with it.
ExceptKeyboardInterrupt ==
    /\ pc = "except"
    /\ pidfile' = FALSE
    /\ dbopen' = FALSE
    /\ pending' = {}
    /\ pc' = IF pidfile THEN "terminated" ELSE "crashed"
    /\ UNCHANGED <<mode, pollrate, now, db, idx, samples, k, t0, time_elapsed,
                   slept, warned, interrupted, log, lastBatch, rewrote,
                   lastKind, elements, pc2>>

\* db.close() at the end of the sync pass
CloseDb ==
    /\ pc = "close"
    /\ dbopen' = FALSE
    /\ pending' = {}
    /\ pc' = "done"
    /\ UNCHANGED <<mode, pollrate, now, db, pidfile, idx, samples, k, t0,
                   time_elapsed, slept, warned, interrupted, log, lastBatch,
                   rewrote,
                   lastKind, elements, pc2>>

\* the places where the process has ended
EndPcs == {"usage", "crashed", "terminated", "done"}

\* vivad is started again after the process has ended, in either mode and on
\* the same database file and PID file: every program variable is new, the
\* files and the clock are what they were
Restart ==
    /\ pc \in EndPcs
    /\ mode' \in {"sync", "poll"}
    /\ pc' = "connect"
    /\ pending' = {}
    /\ dbopen' = TRUE
    /\ idx' = 1
    /\ samples' = PyList(<<>>)
    /\ k' = 1
    /\ t0' = 0
    /\ time_elapsed' = -1
    /\ slept' = -1
    /\ warned' = FALSE
    /\ interrupted' = FALSE
    /\ lastKind' = "none"
    /\ log' = <<>>
    /\ lastBatch' = <<>>
    /\ rewrote' = FALSE
    /\ elements' = <<>>
    /\ UNCHANGED <<pollrate, now, db, pidfile, pc2>>

Next ==
    \/ CreateTables
    \/ SyncStart
    \/ PidCheck
    \/ PidWrite
    \/ RoundStart
    \/ FetchLatest
    \/ FetchHistory
    \/ InsertOk
    \/ InsertRaise
    \/ Commit
    \/ RunCallback
    \/ RoundEnd
    \/ Sleep
    \/ Interrupt
    \/ ExceptKeyboardInterrupt
    \/ CloseDb
    \/ Restart

Spec == Init /\ [][Next]_vars

\* The main program is one thread: a statement that can run does run.  The
\* interrupt is the environment's and is under no such obligation.
FairSpec ==
    /\ Spec
    /\ WF_vars(ExceptKeyboardInterrupt)
    /\ WF_vars(CloseDb)

(***************************************************************************)
(* Two vivad processes started in poll mode on the same PID file.  The     *)
(* first is followed up to its first fetch; of the second, `pc2' says      *)
(* where it is, and its poll loop is the one place "round".                *)
(***************************************************************************)
RaceInit ==
    /\ mode = "poll"
    /\ pollrate \in 1..MaxPollRate
    /\ pc = "connect"
    /\ now = 0
    /\ db = {}
    /\ pending = {}
    /\ dbopen = TRUE
    /\ pidfile \in BOOLEAN
    /\ idx = 1
    /\ samples = PyList(<<>>)
    /\ k = 1
    /\ t0 = 0
    /\ time_elapsed = -1
    /\ slept = -1
    /\ warned = FALSE
    /\ interrupted = FALSE
    /\ lastKind = "none"
    /\ log = <<>>
    /\ lastBatch = <<>>
    /\ rewrote = FALSE
    /\ elements = <<>>
    /\ pc2 = "start"

\* the second process: `if os.path.isfile(pidfile): usage(...)'
PidCheck2 ==
    /\ pc2 = "start"
    /\ pc2' = IF pidfile THEN "usage" ELSE "pidwrite"
    /\ UNCHANGED <<mode, pollrate, pc, now, db, pending, dbopen, pidfile, idx,
                   samples, k, t0, time_elapsed, slept, warned, interrupted, log,
                   lastBatch, rewrote, lastKind, elements>>

\* the second process: file(pidfile, 'w').write(pid), and into the loop
PidWrite2 ==
    /\ pc2 = "pidwrite"
    /\ pidfile' = TRUE
    /\ pc2' = "round"
    /\ UNCHANGED <<mode, pollrate, pc, now, db, pending, dbopen, idx, samples, k,
                   t0, time_elapsed, slept, warned, interrupted, log, lastBatch,
                   rewrote, lastKind, elements>>

\* the second process: SIGINT while its poll loop runs
Interrupt2 ==
    /\ pc2 = "round"
    /\ pc2' = "except"
    /\ UNCHANGED <<mode, pollrate, pc, now, db, pending, dbopen, pidfile, idx,
                   samples, k, t0, time_elapsed, slept, warned, interrupted, log,
                   lastBatch, rewrote, lastKind, elements>>

\* the second process: `except KeyboardInterrupt: os.unlink(pidfile)'
ExceptKeyboardInterrupt2 ==
    /\ pc2 = "except"
    /\ pidfile' = FALSE
    /\ pc2' = IF pidfile THEN "terminated" ELSE "crashed"
    /\ UNCHANGED <<mode, pollrate, pc, now, db, pending, dbopen, idx, samples, k,
                   t0, time_elapsed, slept, warned, interrupted, log, lastBatch,
                   rewrote, lastKind, elements>>

RaceNext ==
    \/ CreateTables
    \/ PidCheck
    \/ PidWrite
    \/ RoundStart
    \/ Interrupt
    \/ ExceptKeyboardInterrupt
    \/ PidCheck2
    \/ PidWrite2
    \/ Interrupt2
    \/ ExceptKeyboardInterrupt2

RaceSpec == RaceInit /\ [][RaceNext]_vars

(***************************************************************************)
(* The sample construction on its own: create_sample and the two fetch     *)
(* functions applied to one parsed response, for responses drawn from a     *)
(* larger set than the main program is followed with.                      *)
(***************************************************************************)
\* spellings of type names as the service may send them, and a name that
\* SAMPLE_LUT does not list
Medelvind_lc == <<"m","e","d","e","l","v","i","n","d">>
Medelvind_mc == <<"M","e","d","e","l","V","i","n","d">>
Strom2m_lc == <<"s","t","r","ö","m"," ","2","m">>
Strom2m_mc == <<"S","t","r","Ö","m"," ","2","M">>
NEDERBORD == <<"N","E","D","E","R","B","Ö","R","D">>

\* the names that SAMPLE_LUT lists
ListedNames ==
    { MEDELVIND, BYVIND, RIKTNING, VATTENTEMPERATUR, SIKT, LUFTTEMPERATUR,
      LUFTFUKTIGHET, LUFTTRYCK, VATTENSTAND, STROM_2M, STROM_4M, STROM_6M,
      STROM_YTA }

\* the units that SAMPLE_LUT lists, and one that it does not
RawUnits == {"m/s", "°", "m", "%", "mbar", "cm", "knop", "km/h"}

\* raw timestamps: 2014-01-01T10:00:00 and 2014-05-01T10:00:00
RawTids == {10, 120 * 24 + 10}

\* the (stype, sunit) arguments create_sample is called with on its own
ClassifyInputs ==
    { <<[typ |-> n, unit |-> u, value |-> "5.2", tid |-> 10]>> :
        n \in ListedNames \cup {Medelvind_lc, Strom2m_mc, NEDERBORD},
        u \in RawUnits }

\* the elements of the responses the fetch functions are applied to
IngestElems ==
    { [typ |-> n, unit |-> u, value |-> v, tid |-> t] :
        n \in {Medelvind_lc, Medelvind_mc, MEDELVIND, Strom2m_lc},
        u \in {"m/s", "knop"}, v \in {"5.2", " 5,2"}, t \in RawTids }

IngestInputs ==
    ClassifyInputs \cup UNION { [1..n -> IngestElems] : n \in 0..MaxElements }

IngestInit ==
    /\ mode \in {"sync", "poll"}
    /\ pollrate = 1
    /\ pc = "ingest"
    /\ now = 0
    /\ db = {}
    /\ pending = {}
    /\ dbopen = FALSE
    /\ pidfile = FALSE
    /\ idx \in DOMAIN Stations
    /\ samples = PyList(<<>>)
    /\ k = 1
    /\ t0 = 0
    /\ time_elapsed = -1
    /\ slept = -1
    /\ warned = FALSE
    /\ interrupted = FALSE
    /\ lastKind = "ok"
    /\ log = <<>>
    /\ lastBatch = <<>>
    /\ rewrote = FALSE
    /\ elements \in IngestInputs
    /\ pc2 = "absent"

\* create_sample(station_id, station_name, sunit, stype, svalue, ststamp)
\* with the type name as it is
Classify ==
    /\ pc = "ingest"
    /\ Len(elements) = 1
    /\ samples' = PyList(create_sample(Stations[idx], StationName(Stations[idx]),
                                       elements[1].unit, elements[1].typ,
                                       elements[1].value,
                                       ParseTstamp(elements[1].tid)))
    /\ pc' = "classified"
    /\ UNCHANGED <<mode, pollrate, now, db, pending, dbopen, pidfile, idx, k, t0,
                   time_elapsed, slept, warned, interrupted, log, lastBatch,
                   rewrote, lastKind, elements, pc2>>

\* fetch_station_latest on a response with a station name and `elements'
IngestLatest ==
    /\ pc = "ingest"
    /\ mode = "poll"
    /\ samples' = fetch_station_latest(Stations[idx],
                                       [kind |-> "ok", elements |-> elements])
    /\ pc' = "ingested"
    /\ UNCHANGED <<mode, pollrate, now, db, pending, dbopen, pidfile, idx, k, t0,
                   time_elapsed, slept, warned, interrupted, log, lastBatch,
                   rewrote, lastKind, elements, pc2>>

\* fetch_station_history on a response with `elements'
IngestHistory ==
    /\ pc = "ingest"
    /\ mode = "sync"
    /\ samples' = fetch_station_history(Stations[idx],
                                        [kind |-> "ok", elements |-> elements])
    /\ pc' = "ingested"
    /\ UNCHANGED <<mode, pollrate, now, db, pending, dbopen, pidfile, idx, k, t0,
                   time_elapsed, slept, warned, interrupted, log, lastBatch,
                   rewrote, lastKind, elements, pc2>>

IngestNext ==
    \/ Classify
    \/ IngestLatest
    \/ IngestHistory

IngestSpec == IngestInit /\ [][IngestNext]_vars

(***************************************************************************)
(* Properties.                                                             *)
(***************************************************************************)
Rows == db \cup pending

\* the unique keys of the samples of a list
KeysOf(list) == { UniqueKey(RowOf(list[i], 0)) : i \in DOMAIN list }

\* the unique keys of a set of rows
RowKeys(rows) == { UniqueKey(r) : r \in rows }

\* the last store_samples call raised out of its loop
StoreCallRaised == log # <<>> /\ log[Len(log)].stored = "raised"

\* the last store_samples call committed
StoreCallCommitted == log # <<>> /\ log[Len(log)].stored = "committed"

\* nothing of a batch is committed before store_samples commits, all of it
\* is in the table after the commit, and nothing of it is left after a
\* failed insert
NoPartialBatch ==
    /\ pending \cap db = {}
    /\ (pc = "insert" => \A r \in pending : UniqueKey(r) \notin RowKeys(db))
    /\ (StoreCallCommitted /\ pc = "callback" => KeysOf(samples.list) \subseteq RowKeys(db))
    /\ (StoreCallRaised => pending = {})

\* C1: write_batch is atomic and reports a failure: a committed call leaves
\* a row for every sample of the batch, a call in which an insert failed
\* leaves nothing of the batch behind, nothing is committed while the call
\* runs, and the failed call returns (False) to its caller rather than
\* ending the program.
C1_AtomicBatchReportsFailure ==
    /\ NoPartialBatch
    /\ (StoreCallRaised => pc # "crashed")

\* C2: no two rows of the store, committed or in the open transaction, share
\* (station_id, sample_tstamp, sample_type); when the inserts of a batch are
\* done, every sample of the batch has its one row, also where an insert
\* met an existing triple.
C2_UniqueTriple ==
    /\ \A r1, r2 \in Rows : UniqueKey(r1) = UniqueKey(r2) => r1 = r2
    /\ (pc = "commit" => KeysOf(samples.list) \subseteq RowKeys(Rows))
    /\ (pc = "callback" => KeysOf(samples.list) \subseteq RowKeys(db))

\* C2 witness: a batch holding the same triple twice was committed
C2_Witness ==
    /\ pc = "callback"
    /\ StoreCallCommitted
    /\ Len(samples.list) = 2
    /\ UniqueKey(RowOf(samples.list[1], 0)) = UniqueKey(RowOf(samples.list[2], 0))
    /\ samples.list[1] # samples.list[2]

\* C3: a store_samples call that commits the very batch that the committed
\* call before it wrote leaves the table as it was, in every column.
C3_WriteTwiceIsWriteOnce ==
    [][(pc = "commit" /\ pc' = "callback" /\ samples.list = lastBatch) => db' = db]_vars

\* C3 witness: the batch was committed a second time, later than the first
C3_Witness ==
    /\ pc = "callback"
    /\ rewrote
    /\ \E r \in db : /\ UniqueKey(r) \in KeysOf(samples.list)
                     /\ r.store_tstamp < now

\* the stations of `log', in order
LogStations == [i \in DOMAIN log |-> log[i].sid]

\* C4: in poll mode a fetch that ends in an error indicator or a missing
\* station name does not end the program and stores nothing for the
\* station; the round goes through every station in order, and the batches
\* committed for the other stations are in the table at the end of the
\* round.
C4_StationFailureIsolated ==
    mode = "poll" =>
        /\ (lastKind \in {"err", "noname"} => pc # "crashed" /\ samples = PyFalse)
        /\ \A i \in DOMAIN log :
              /\ log[i].got = "false" => log[i].stored = "no"
              /\ log[i].stored = "committed" =>
                    \E r \in db : r.station_id = log[i].sid
        /\ (pc \in {"elapsed", "sleep"} => LogStations = Stations)

\* C4 witness: the round over [A, B, C] is over, B's fetch failed on the
\* error indicator, A's and C's batches are committed
C4_Witness ==
    /\ mode = "poll"
    /\ pc = "sleep"
    /\ Len(log) = 3
    /\ log[1].stored = "committed"
    /\ log[2].got = "false"
    /\ log[3].stored = "committed"
    /\ lastKind = "ok"
    /\ \E r \in db : r.station_id = Stations[1]
    /\ \E r \in db : r.station_id = Stations[3]
    /\ ~\E r \in db : r.station_id = Stations[2]

\* C5: a transport error of a fetch does not end the program, in poll mode
\* and in sync mode.
C5_TransportErrorSkipped == ~(pc = "crashed" /\ lastKind = "transport")

\* C6: a store_samples call that fails in the middle of the batch does not
\* end the program: the stations after it are still handled.
C6_StoreFailureSkipped ==
    \A i \in DOMAIN log : log[i].stored = "raised" => pc \in LoopPcs \cup {"close", "done"}

\* C7: the sync pass ends, and when it has ended every configured station
\* was attempted once, in configured order, whatever failed.
C7_SyncAttemptsEveryStation ==
    mode = "sync" /\ pc \in {"done", "crashed"} => LogStations = Stations

\* C8: a round that took less than the poll rate sleeps the poll rate less
\* the time it took, and the next round begins one poll rate after the
\* round began.
C8_SleepCompensates ==
    mode = "poll" /\ time_elapsed >= 0 /\ time_elapsed < pollrate =>
        /\ (pc \in {"sleep", "round"} => ~warned /\ slept = pollrate - time_elapsed)
        /\ (pc = "round" => now = t0 + pollrate)

\* C8 witness: a round of three time units under a poll rate of four has
\* slept one unit
C8_Witness ==
    /\ pc = "round"
    /\ pollrate = 4
    /\ time_elapsed = 3
    /\ slept = 1
    /\ now = t0 + 4

\* C9 as claimed: a round that took at least the poll rate, the poll rate
\* itself included, warns and does not sleep.
C9_WarnsFromPollrateOn ==
    mode = "poll" /\ pc \in {"sleep", "round"} /\ time_elapsed >= pollrate =>
        warned /\ pc = "round" /\ slept = -1

\* C9 as amended: a round that took more than the poll rate warns and does
\* not sleep; a round that took the poll rate exactly does not warn and
\* calls time.sleep(0).
C9_WarnsAbovePollrate ==
    mode = "poll" /\ pc \in {"sleep", "round"} =>
        /\ (time_elapsed > pollrate => warned /\ pc = "round" /\ slept = -1)
        /\ (time_elapsed = pollrate => ~warned /\ slept = 0)

\* C9 witness: a round that took more than the poll rate has warned and is
\* at the start of the next round
C9_Witness ==
    /\ mode = "poll"
    /\ pc = "round"
    /\ time_elapsed > pollrate
    /\ warned
    /\ slept = -1

\* C10: in poll mode an interrupt leads to the terminated state; from the
\* interrupt on the process fetches, inserts and commits nothing; in the terminated
\* state the PID file is gone and the connection closed; the terminated
\* state is reached only by an interrupt.
C10_InterruptTerminates ==
    /\ (interrupted ~> pc = "terminated")
    /\ [](pc = "terminated" => interrupted /\ ~pidfile /\ ~dbopen /\ pending = {})
    /\ [](interrupted => mode = "poll" /\ pc \in {"except", "terminated"})
    /\ [][interrupted /\ interrupted' =>
              log' = log /\ db' = db /\ samples' = samples
              /\ pending' \subseteq pending]_vars

\* C10 witness: the loop was interrupted in the middle of a batch and the
\* program is in the terminated state
C10_Witness ==
    /\ pc = "terminated"
    /\ interrupted
    /\ log # <<>>
    /\ log[Len(log)].got = "samples"
    /\ log[Len(log)].stored = "no"
    /\ k = 2

\* the main program is done with the station of log[i]: a later station was
\* fetched, or the program is past the iteration's last statement
Handled(i) ==
    \/ i < Len(log)
    \/ pc \in {"fetch", "elapsed", "sleep", "round", "close", "done"}

\* C11: in both modes run_callback is called at most once for a station of
\* the pass; it is called only when the fetch gave a non-empty list and
\* store_samples committed it, with the name of that station, and the rows
\* are committed by then; it is not called when the fetch failed, the list
\* was empty or an insert raised; and when the program is done with a
\* station whose batch was committed, it was called.
C11_NotifiedOncePerCommittedBatch ==
    \A i \in DOMAIN log :
        /\ log[i].notified \in {0, 1}
        /\ log[i].notified = 1 =>
              /\ log[i].got = "samples"
              /\ log[i].stored = "committed"
              /\ log[i].instance = StationName(log[i].sid)
              /\ \E r \in db : r.station_id = log[i].sid
        /\ (log[i].got \in {"raised", "false", "empty"} \/ log[i].stored = "raised") =>
              log[i].notified = 0
        /\ (Handled(i) /\ log[i].got = "samples" /\ log[i].stored = "committed") =>
              log[i].notified = 1

\* C11 witness: a poll round in which A's batch was committed and notified,
\* B's list was empty and C's fetch failed
C11_Witness ==
    /\ mode = "poll"
    /\ pc = "sleep"
    /\ Len(log) = 3
    /\ log[1].stored = "committed" /\ log[1].notified = 1 /\ log[1].instance = "A"
    /\ log[2].got = "empty" /\ log[2].notified = 0
    /\ log[3].got = "false" /\ log[3].notified = 0

\* the classifier table of the specification, section 4.1
CanonicalTable ==
    { [name |-> MEDELVIND, unit |-> "m/s", type |-> "AVG_WIND"],
      [name |-> BYVIND, unit |-> "m/s", type |-> "GUST_WIND"],
      [name |-> RIKTNING, unit |-> "°", type |-> "WIND_DIRECTION"],
      [name |-> VATTENTEMPERATUR, unit |-> "°", type |-> "WATER_TEMP"],
      [name |-> SIKT, unit |-> "m", type |-> "VISIBILITY"],
      [name |-> LUFTTEMPERATUR, unit |-> "°", type |-> "AIR_TEMP"],
      [name |-> LUFTFUKTIGHET, unit |-> "%", type |-> "AIR_HUMIDITY"],
      [name |-> LUFTTRYCK, unit |-> "mbar", type |-> "AIR_PRESSURE"],
      [name |-> VATTENSTAND, unit |-> "cm", type |-> "WATER_LEVEL"],
      [name |-> STROM_2M, unit |-> "°", type |-> "WATER_CURRENT_2M_DIR"],
      [name |-> STROM_2M, unit |-> "knop", type |-> "WATER_CURRENT_2M_SPEED"],
      [name |-> STROM_4M, unit |-> "°", type |-> "WATER_CURRENT_4M_DIR"],
      [name |-> STROM_4M, unit |-> "knop", type |-> "WATER_CURRENT_4M_SPEED"],
      [name |-> STROM_6M, unit |-> "°", type |-> "WATER_CURRENT_6M_DIR"],
      [name |-> STROM_6M, unit |-> "knop", type |-> "WATER_CURRENT_6M_SPEED"],
      [name |-> STROM_YTA, unit |-> "°", type |-> "WATER_CURRENT_SURFACE_DIR"],
      [name |-> STROM_YTA, unit |-> "knop", type |-> "WATER_CURRENT_SURFACE_SPEED"] }

\* the rows of the table for a pair
TableRows(name, unit) ==
    { row \in CanonicalTable : row.name = name /\ row.unit = unit }

\* what the table says of a pair: its canonical type, or "Rejected"
TableType(name, unit) ==
    IF TableRows(name, unit) = {} THEN "Rejected"
    ELSE (CHOOSE row \in TableRows(name, unit) : TRUE).type

\* what a one-record call gave: the canonical type of its Sample, or "Rejected"
Classified(s) == IF s.list = <<>> THEN "Rejected" ELSE s.list[1].stype

\* C12: create_sample is total and closed over (type name, unit): for a pair
\* of the table it gives a Sample of exactly the mapped canonical type, the
\* table has one row for the pair at most, and for every other pair, a
\* listed name with another name's unit among them, it gives the rejection
\* value and no Sample.
C12_ClassifyTotalAndClosed ==
    pc = "classified" =>
        /\ ~samples.isFalse
        /\ Len(samples.list) <= 1
        /\ Cardinality(TableRows(elements[1].typ, elements[1].unit)) <= 1
        /\ Classified(samples) = TableType(elements[1].typ, elements[1].unit)

\* C12 witness: STRÖM 2M is listed with two units; with knop it is the speed
C12_Witness ==
    /\ pc = "classified"
    /\ elements[1].typ = STROM_2M
    /\ elements[1].unit = "knop"
    /\ Len(samples.list) = 1
    /\ samples.list[1].stype = "WATER_CURRENT_2M_SPEED"

\* the upper-case name that a spelling spells
NameKey(typ) ==
    CASE typ \in {Medelvind_lc, Medelvind_mc} -> MEDELVIND
      [] typ \in {Strom2m_lc, Strom2m_mc} -> STROM_2M
      [] OTHER -> typ

\* C13: on the latest path and on the history path a one-element response
\* is classified as the table classifies the upper-case spelling of its
\* type name with the same unit, whether the name came in lower, upper or
\* mixed case: the spellings of a name give the same result.
C13_CaseInsensitive ==
    pc = "ingested" /\ Len(elements) = 1 =>
        /\ ~samples.isFalse
        /\ Classified(samples) = TableType(NameKey(elements[1].typ), elements[1].unit)

\* C13 witness: the latest path took "Ström 2M" in knop for the speed
C13_Witness ==
    /\ pc = "ingested"
    /\ mode = "poll"
    /\ elements[1].typ = Strom2m_mc
    /\ elements[1].unit = "knop"
    /\ Len(samples.list) = 1
    /\ samples.list[1].stype = "WATER_CURRENT_2M_SPEED"

\* the last fetch of the pass was a total failure: False came back, and
\* nothing of the station was inserted, committed or notified since
TotalFailure ==
    /\ samples = PyFalse
    /\ pending = {}
    /\ log # <<>> =>
          /\ log[Len(log)].got = "false"
          /\ log[Len(log)].stored = "no"
          /\ log[Len(log)].notified = 0
          /\ \A r \in db : r.station_id = log[Len(log)].sid => r.store_tstamp < now

\* C14 as claimed: in poll mode a response with the error indicator or
\* without the station name is a total failure, and what the main program
\* gets for it differs from what it gets for every response that has the
\* station name and no error indicator.
C14_FailureDistinctFromSuccess ==
    mode = "poll" =>
        /\ (lastKind \in {"err", "noname"} => TotalFailure)
        /\ (lastKind = "ok" => samples # PyFalse)

\* C14 as amended: in poll mode a response with the error indicator or
\* without the station name is a total failure; a response with sample
\* elements gives a list, empty when all were rejected, which is not the
\* failure value; a response with the station name and no sample element
\* gives the failure value too.
C14_FailureDistinctFromRejectedOnly ==
    mode = "poll" =>
        /\ (lastKind \in {"err", "noname"} => TotalFailure)
        /\ (lastKind = "ok" /\ elements # <<>> => ~samples.isFalse)
        /\ (lastKind = "ok" /\ elements = <<>> => samples = PyFalse)

\* C14 witness: a round in which A's elements were all rejected, B's batch
\* was committed and C's response had the error indicator
C14_Witness ==
    /\ mode = "poll"
    /\ pc = "sleep"
    /\ Len(log) = 3
    /\ log[1].got = "empty"
    /\ log[2].stored = "committed"
    /\ log[3].got = "false"
    /\ lastKind = "err"
    /\ samples = PyFalse
    /\ ~\E r \in db : r.station_id = Stations[3]

\* the table lists the record's pair, the type name read in upper case
Accepted(e) == TableType(NameKey(e.typ), e.unit) # "Rejected"

\* what the specification's ingest gives for the records of a station: the
\* accepted records in their order, each with the station's id and name, its
\* canonical type, its value string and its timestamp reading
ExpectedSamples(sid, recs) ==
    LET kept == SelectSeq(recs, Accepted)
    IN  [i \in DOMAIN kept |->
            [station_id |-> sid, station_name |-> StationName(sid),
             stype |-> TableType(NameKey(kept[i].typ), kept[i].unit),
             svalue |-> kept[i].value, wall |-> kept[i].tid]]

\* the same fields of the Samples of a list
Returned(list) ==
    [i \in DOMAIN list |->
        [station_id |-> list[i].station_id, station_name |-> list[i].station_name,
         stype |-> list[i].stype, svalue |-> list[i].svalue,
         wall |-> list[i].ststamp.wall]]

\* C15: the loop of either fetch function returns a list of exactly the
\* records whose (type, unit) the table lists, in the order of the response,
\* each with its value string as it came and the station's name; a rejected
\* record leaves no Sample and the records after it are still taken.  (The
\* latest path reaches its loop when the response has an element.)
C15_IngestKeepsAcceptedInOrder ==
    pc = "ingested" /\ (mode = "poll" => elements # <<>>) =>
        /\ ~samples.isFalse
        /\ Returned(samples.list) = ExpectedSamples(Stations[idx], elements)

\* C15 witness: a rejected record came first and the accepted record after
\* it was returned, value string and station name as they came
C15_Witness ==
    /\ pc = "ingested"
    /\ mode = "poll"
    /\ idx = 2
    /\ Len(elements) = 2
    /\ elements[1].unit = "knop" /\ elements[1].typ = Medelvind_lc
    /\ elements[2].unit = "knop" /\ elements[2].typ = Strom2m_lc
    /\ elements[2].value = " 5,2"
    /\ Len(samples.list) = 1
    /\ samples.list[1].svalue = " 5,2"
    /\ samples.list[1].station_name = "B"
    /\ samples.list[1].stype = "WATER_CURRENT_2M_SPEED"

\* the first and the last hour, on the wall clock of the zone CET, of its
\* summer time (CEST) in 2014: the hour of 2014-03-30T03:00 and the hour of
\* 2014-10-26T02:00, which the clock shows a second time in winter time
CEST_FIRST == 88 * 24 + 3
CEST_LAST == 298 * 24 + 2

\* the offset from UTC of the zone CET at a reading of its wall clock
ZoneOffset(wall) == IF wall >= CEST_FIRST /\ wall <= CEST_LAST THEN 2 ELSE 1

\* C16: the sample_tstamp that is stored for a Sample is the UTC instant of
\* its raw timestamp read on the wall clock of the zone CET, in winter and
\* in summer: 2014-05-01T10:00:00 is stored as 2014-05-01T08:00:00 UTC.
C16_StoredAsUtcInstant ==
    pc = "ingested" =>
        \A i \in DOMAIN samples.list :
            RowOf(samples.list[i], now).sample_tstamp =
                samples.list[i].ststamp.wall - ZoneOffset(samples.list[i].ststamp.wall)

\* C17: in a poll round the stations are taken in configured order, each
\* once; a station's fetch begins only when the stations before it are done
\* with, store and notification included; the one transaction that can be
\* open holds rows of the station at hand only; and the end of the round,
\* with its sleep, is reached only when the last station is done with.
C17_OneStationAtATime ==
    mode = "poll" =>
        /\ LogStations = SubSeq(Stations, 1, Len(log))
        /\ (pc = "fetch" => Len(log) = idx - 1)
        /\ (pc \in {"insert", "commit", "callback"} => Len(log) = idx)
        /\ \A i \in DOMAIN log :
              Handled(i) /\ log[i].got = "samples" =>
                  log[i].stored = "committed" /\ log[i].notified = 1
        /\ (pending # {} =>
              /\ pc \in {"insert", "commit", "except"}
              /\ \A r \in pending : r.station_id = Stations[idx])
        /\ (pc \in {"elapsed", "sleep"} =>
              LogStations = Stations /\ idx = Len(Stations) /\ pending = {})

\* C17 witness: the sleep of a round in which all three batches were
\* committed and notified, each fetched later than the one before
C17_Witness ==
    /\ mode = "poll"
    /\ pc = "sleep"
    /\ LogStations = Stations
    /\ \A i \in DOMAIN log : log[i].stored = "committed" /\ log[i].notified = 1
    /\ \A i \in DOMAIN Stations : \E r \in db : r.station_id = Stations[i]
    /\ \E r1, r2 \in db :
          /\ r1.station_id = Stations[1]
          /\ r2.station_id = Stations[2]
          /\ r1.store_tstamp < r2.store_tstamp

\* C18: no step of the program, be it create_database_tables, an insert, a
\* commit, a failed store_samples call, the end of the process or a new
\* start, takes a committed row away or changes a column of it, and none
\* adds a second row for the triple of a committed row: the row of the
\* first write stays, store_tstamp included.
C18_AppendOnlyFirstWriteWins ==
    [][/\ db \subseteq db'
       /\ \A r \in db, r2 \in db' : UniqueKey(r2) = UniqueKey(r) => r2 = r]_vars

\* C18 witness: a sync pass has committed, for its first station, a batch
\* whose triple an earlier process had stored at an earlier hour; the row
\* of that process is the one in the table
C18_Witness ==
    /\ mode = "sync"
    /\ pc = "callback"
    /\ idx = 1
    /\ StoreCallCommitted
    /\ \E r \in db : /\ UniqueKey(r) \in KeysOf(samples.list)
                     /\ r.store_tstamp < now
    /\ \A r \in db : r.store_tstamp < now

\* C19: when a poll-mode process that wrote the PID file has ended, by an
\* interrupt or by an exception of a fetch or of the store, the PID file is
\* gone.
C19_NoPidFileAfterProcessEnd ==
    mode = "poll" /\ pc \in {"crashed", "terminated"} => ~pidfile

\* C20: of two poll-mode processes started on the same PID file at most one
\* is in the poll loop, however their checks and writes of the file
\* interleave; and a process that found the file has fetched and stored
\* nothing.
C20_AtMostOneInLoop ==
    /\ ~(pc \in LoopPcs /\ pc2 = "round")
    /\ (pc = "usage" => log = <<>> /\ db = {} /\ pending = {})

=============================================================================
